---- MODULE Spec2Model ----
(***************************************************************************)
(* Model of skfair/metrics/equal_opportunity_score.py.                     *)
(*                                                                         *)
(* equal_opportunity_score(sensitive_column, positive_target) is a factory *)
(* returning the closure impl(estimator, X, y_true).  The state is the     *)
(* data a caller holds (feature matrix X, labels y_true, the predictions   *)
(* the estimator gives for X), the closures created so far, and the log of *)
(* the calls made, each with its inputs and its outcome (exception raised, *)
(* whether estimator.predict ran, warnings issued, value returned).        *)
(*                                                                         *)
(* Floating point values are modelled as reduced fractions extended with   *)
(* inf and nan; numpy is taken in its default error state                  *)
(* (divide='warn', invalid='warn'), in which a scalar division by zero     *)
(* issues a RuntimeWarning and yields inf or nan.                          *)
(***************************************************************************)
EXTENDS Integers, Sequences, FiniteSets, TLC

VARIABLES X, y_true, y_hat, scorers, log

vars == <<X, y_true, y_hat, scorers, log>>

-----------------------------------------------------------------------------
(* Bounds of the model *)

MaxRows == 2
MaxCalls == 2
MaxScorers == 1

\* values a cell of the sensitive column may hold: 0 and 1 are the two
\* groups, 2 stands for any other value
ColumnValues == {0, 1, 2}
\* class labels of y_true and of the predictions
Labels == {0, 1}
\* X has two columns (0-based as in numpy): column 0 is the sensitive
\* attribute, column 1 an intercept column of ones; the closures are made
\* for column 0
SensitiveColumns == {0}

-----------------------------------------------------------------------------
(* Floating point values: [kind, n, d] with kind in num / inf / nan;       *)
(* kind "none" marks the absence of a returned value.                      *)

RECURSIVE GCD(_, _)
GCD(a, b) == IF b = 0 THEN a ELSE GCD(b, a % b)

Num(n, d) == LET g == GCD(n, d) IN [kind |-> "num", n |-> n \div g, d |-> d \div g]
Inf == [kind |-> "inf", n |-> 1, d |-> 0]
NaN == [kind |-> "nan", n |-> 0, d |-> 0]
NoScore == [kind |-> "none", n |-> 0, d |-> 0]
Zero == Num(0, 1)
One == Num(1, 1)

\* a <= b on non-nan values
FloatLeq(a, b) ==
    IF a.kind = "inf" THEN b.kind = "inf"
    ELSE IF b.kind = "inf" THEN TRUE
    ELSE a.n * b.d <= b.n * a.d

\* variant: every division by zero yields nan
true_divide_nan(a, b) ==
    IF b.n = 0 THEN NaN ELSE Num(a.n * b.d, a.d * b.n)

\* numpy scalar division a / b of non-negative finite floats
true_divide(a, b) ==
    IF b.n = 0
    THEN IF a.n = 0 THEN NaN ELSE Inf
    ELSE Num(a.n * b.d, a.d * b.n)

Warning(origin, what) == [category |-> "RuntimeWarning", origin |-> origin, what |-> what]

\* the RuntimeWarning numpy issues for a / b in its default error state
divide_warnings(a, b) ==
    IF b.n = 0
    THEN IF a.n = 0 THEN <<Warning("numpy", "invalid value")>>
                    ELSE <<Warning("numpy", "divide by zero")>>
    ELSE <<>>

\* variant: the quotient p1 / p0 alone, without the minimum
np_first(a, b) == a

\* variant: the larger of the two quotients
np_maximum(a, b) ==
    IF a.kind = "nan" THEN a
    ELSE IF b.kind = "nan" THEN b
    ELSE IF FloatLeq(a, b) THEN b ELSE a

\* np.minimum propagates nan
np_minimum(a, b) ==
    IF a.kind = "nan" THEN a
    ELSE IF b.kind = "nan" THEN b
    ELSE IF FloatLeq(a, b) THEN a ELSE b

\* variant: nan is never recognised
np_isnan_never(a) == FALSE

np_isnan(a) == a.kind = "nan"

\* arr[mask]: the elements of arr at the positions where mask is TRUE
RECURSIVE BoolIndex(_, _)
BoolIndex(arr, mask) ==
    IF arr = <<>> THEN <<>>
    ELSE IF Head(mask) THEN <<Head(arr)>> \o BoolIndex(Tail(arr), Tail(mask))
         ELSE BoolIndex(Tail(arr), Tail(mask))

RECURSIVE CountTrue(_)
CountTrue(b) == IF b = <<>> THEN 0 ELSE (IF Head(b) THEN 1 ELSE 0) + CountTrue(Tail(b))

\* np.mean of a non-empty boolean array
np_mean(b) == Num(CountTrue(b), Len(b))

-----------------------------------------------------------------------------
(* The closure returned by equal_opportunity_score *)

\* X[:, sensitive_column]
SensitiveCol(cfg, x) == [i \in 1..Len(x) |-> x[i][cfg.sensitive_column + 1]]

\* variant: the check accepts every non-negative value
IsBinary_nonnegative(col) == \A i \in 1..Len(col) : col[i] >= 0

\* np.all((sensitive_col == 0) | (sensitive_col == 1))
IsBinary(col) == \A i \in 1..Len(col) : (col[i] = 0) \/ (col[i] = 1)

\* variant: the mask ignores the true label
GroupMask_anylabel(col, yt, g, pt) == [i \in 1..Len(col) |-> col[i] = g]

\* (sensitive_col == g) & (y_true == positive_target)
GroupMask(col, yt, g, pt) == [i \in 1..Len(col) |-> (col[i] = g) /\ (yt[i] = pt)]

Outcome(raised, predicted, warnings, score) ==
    [raised |-> raised, predicted |-> predicted, warnings |-> warnings, score |-> score]

\* raise ValueError(...): predict has not run, nothing is returned
RaiseValueError == Outcome("ValueError", FALSE, <<>>, NoScore)

\* variant: the group 0 check comes first
EmptyGroups_swapped(y_given_z1_y1, y_given_z0_y1) ==
    IF Len(y_given_z0_y1) = 0 THEN <<"group 0">>
    ELSE IF Len(y_given_z1_y1) = 0 THEN <<"group 1">>
    ELSE <<>>

\* the two len(...) == 0 checks in their order: the group whose check fires
EmptyGroups(y_given_z1_y1, y_given_z0_y1) ==
    IF Len(y_given_z1_y1) = 0 THEN <<"group 1">>
    ELSE IF Len(y_given_z0_y1) = 0 THEN <<"group 0">>
    ELSE <<>>

\* variant: 0 is returned without a warning
EmptyGroupOutcome_silent(g) == Outcome("none", TRUE, <<>>, Zero)

\* warnings.warn(..., RuntimeWarning); return 0
EmptyGroupOutcome(g) == Outcome("none", TRUE, <<Warning("impl", g)>>, Zero)

\* score if not np.isnan(score) else 1
NanFallback(score) == IF ~np_isnan(score) THEN score ELSE One

\* the body of impl from estimator.predict on
Evaluate(pt, sensitive_col, yt, yh) ==
    LET y_given_z1_y1 == BoolIndex(yh, GroupMask(sensitive_col, yt, 1, pt))
        y_given_z0_y1 == BoolIndex(yh, GroupMask(sensitive_col, yt, 0, pt))
        empty == EmptyGroups(y_given_z1_y1, y_given_z0_y1)
        p_y1_z1 == np_mean([i \in 1..Len(y_given_z1_y1) |-> y_given_z1_y1[i] = pt])
        p_y1_z0 == np_mean([i \in 1..Len(y_given_z0_y1) |-> y_given_z0_y1[i] = pt])
        score == np_minimum(true_divide(p_y1_z1, p_y1_z0), true_divide(p_y1_z0, p_y1_z1))
        numeric == divide_warnings(p_y1_z1, p_y1_z0) \o divide_warnings(p_y1_z0, p_y1_z1)
    IN  IF empty # <<>>
        THEN EmptyGroupOutcome(empty[1])
        ELSE Outcome("none", TRUE, numeric, NanFallback(score))

\* variant: a warning already issued by an earlier call is not issued again
impl_warn_once(cfg, x, yt, yh) ==
    LET o == IF ~IsBinary(SensitiveCol(cfg, x))
             THEN RaiseValueError
             ELSE Evaluate(cfg.positive_target, SensitiveCol(cfg, x), yt, yh)
    IN  IF \E i \in 1..Len(log) : log[i].out.warnings = o.warnings
        THEN [o EXCEPT !.warnings = <<>>]
        ELSE o

impl(cfg, x, yt, yh) ==
    IF ~IsBinary(SensitiveCol(cfg, x))
    THEN RaiseValueError
    ELSE Evaluate(cfg.positive_target, SensitiveCol(cfg, x), yt, yh)

-----------------------------------------------------------------------------
(* Data the caller holds *)

Rows == {<<z, 1>> : z \in ColumnValues}

SeqsUpTo(S, n) == UNION {[1..k -> S] : k \in 0..n}

\* the end-to-end example: z = [0,0,0,1,1,1], y_true = [1,1,0,1,1,0],
\* predictions [1,0,0,1,0,0]; the initial states hold the data sets of up to
\* MaxRows rows and the example's data under every estimator
ExampleX == <<<<0, 1>>, <<0, 1>>, <<0, 1>>, <<1, 1>>, <<1, 1>>, <<1, 1>>>>
ExampleY == <<1, 1, 0, 1, 1, 0>>
ExampleYHat == <<1, 0, 0, 1, 0, 0>>

Init ==
    /\ \/ /\ X \in SeqsUpTo(Rows, MaxRows)
          /\ y_true \in [1..Len(X) -> Labels]
          /\ y_hat \in [1..Len(X) -> Labels]
       \/ /\ X = ExampleX
          /\ y_true = ExampleY
          /\ y_hat \in [1..Len(ExampleX) -> Labels]
    /\ scorers = <<>>
    /\ log = <<>>

\* equal_opportunity_score(sensitive_column, positive_target): a new closure
Factory(col, pt) ==
    /\ Len(scorers) < MaxScorers
    /\ scorers' = Append(scorers, [sensitive_column |-> col, positive_target |-> pt])
    /\ UNCHANGED <<X, y_true, y_hat, log>>

\* scorers[s](estimator, X, y_true)
Call(s) ==
    /\ Len(log) < MaxCalls
    /\ log' = Append(log, [scorer |-> s, cfg |-> scorers[s], X |-> X, y_true |-> y_true,
                           y_hat |-> y_hat, out |-> impl(scorers[s], X, y_true, y_hat)])
    /\ UNCHANGED <<X, y_true, y_hat, scorers>>

InvertCell(v) == IF v = 0 THEN 1 ELSE IF v = 1 THEN 0 ELSE v

\* the caller relabels the two groups of the sensitive attribute (column 0)
InvertGroups ==
    /\ X' = [i \in 1..Len(X) |-> <<InvertCell(X[i][1]), X[i][2]>>]
    /\ UNCHANGED <<y_true, y_hat, scorers, log>>

Next ==
    \/ \E col \in SensitiveColumns, pt \in Labels : Factory(col, pt)
    \/ \E s \in 1..Len(scorers) : Call(s)
    \/ InvertGroups

Spec == Init /\ [][Next]_vars

-----------------------------------------------------------------------------
(* Vocabulary of the properties: a call of the log, described from its     *)
(* inputs by index sets and counts.                                        *)

Calls == {log[i] : i \in 1..Len(log)}

\* the value of the sensitive column in row i of call c
Z(c, i) == c.X[i][c.cfg.sensitive_column + 1]

NonBinary(c) == \E i \in 1..Len(c.X) : Z(c, i) \notin {0, 1}

\* S_g = {i : z[i] = g and y_true[i] = positive_target}
S(c, g) == {i \in 1..Len(c.X) : Z(c, i) = g /\ c.y_true[i] = c.cfg.positive_target}

\* the indices of S_g predicted positive
Hits(c, g) == {i \in S(c, g) : c.y_hat[i] = c.cfg.positive_target}

nS(c, g) == Cardinality(S(c, g))
nHits(c, g) == Cardinality(Hits(c, g))

Returned(c) == c.out.raised = "none"
BothGroups(c) == Returned(c) /\ S(c, 1) # {} /\ S(c, 0) # {}

\* p1 = nHits1 / nS1 and p0 = nHits0 / nS0, compared by cross multiplication
RatesEqual(c) == nHits(c, 1) * nS(c, 0) = nHits(c, 0) * nS(c, 1)
Rate1Smaller(c) == nHits(c, 1) * nS(c, 0) <= nHits(c, 0) * nS(c, 1)

ImplWarnings(c) == {i \in 1..Len(c.out.warnings) : c.out.warnings[i].origin = "impl"}

IsExample(c) ==
    /\ c.X = ExampleX
    /\ c.y_true = ExampleY
    /\ c.y_hat = ExampleYHat
    /\ c.cfg.positive_target = 1

\* call d is call c with the sensitive column inverted
Inverted(c, d) ==
    /\ c.cfg = d.cfg
    /\ c.y_true = d.y_true
    /\ c.y_hat = d.y_hat
    /\ Len(c.X) = Len(d.X)
    /\ \A i \in 1..Len(c.X) : Z(c, i) \in {0, 1} /\ Z(d, i) = 1 - Z(c, i)

SameInputs(c, d) ==
    /\ c.cfg = d.cfg
    /\ c.X = d.X
    /\ c.y_true = d.y_true
    /\ c.y_hat = d.y_hat

-----------------------------------------------------------------------------
(* C1: a call raises ValueError exactly when its sensitive column holds a  *)
(* value other than 0 or 1; when it raises, estimator.predict has not been *)
(* invoked, no warning is issued and no score is returned.                 *)
C1_Validation ==
    \A c \in Calls :
        /\ (c.out.raised = "ValueError") <=> NonBinary(c)
        /\ c.out.raised = "ValueError" =>
              /\ ~c.out.predicted
              /\ c.out.warnings = <<>>
              /\ c.out.score = NoScore

\* a call on a column holding a 2 next to valid cells has raised
C1_Witness ==
    \E c \in Calls :
        /\ c.out.raised = "ValueError"
        /\ \E i, j \in 1..Len(c.X) : Z(c, i) = 2 /\ Z(c, j) \in {0, 1}

(* C2: two calls of the same closure on data sets that differ only by the  *)
(* inversion of the sensitive column return the same score.                *)
C2_Symmetry ==
    \A c, d \in Calls : Inverted(c, d) => c.out.score = d.out.score

\* a pair of inverted calls with unequal positive rates in the two groups
C2_Witness ==
    \E c, d \in Calls :
        /\ Inverted(c, d)
        /\ BothGroups(c)
        /\ nHits(c, 1) > 0 /\ nHits(c, 0) > 0
        /\ ~RatesEqual(c)

(* C3: every call that returns, returns a finite number s with 0 <= s <= 1.*)
C3_Range ==
    \A c \in Calls :
        Returned(c) =>
            /\ c.out.score.kind = "num"
            /\ c.out.score.d > 0
            /\ 0 <= c.out.score.n
            /\ c.out.score.n <= c.out.score.d

\* a call where one rate is 0 and the other is positive, so that one of the
\* two quotients is infinite
C3_Witness ==
    \E c \in Calls : BothGroups(c) /\ nHits(c, 1) = 0 /\ nHits(c, 0) > 0

(* C4: a call that passes validation with S1 or S0 empty issues an         *)
(* empty-group warning and returns 0 whatever the predictions; with both   *)
(* S1 and S0 non-empty it issues no empty-group warning.                   *)
C4_EmptyGroup ==
    \A c \in Calls :
        Returned(c) =>
            /\ (S(c, 1) = {} \/ S(c, 0) = {}) =>
                  /\ c.out.score = Zero
                  /\ ImplWarnings(c) # {}
            /\ (S(c, 1) # {} /\ S(c, 0) # {}) => ImplWarnings(c) = {}

\* all positive-labelled samples are in group 0 and are predicted positive
C4_Witness ==
    \E c \in Calls :
        /\ Returned(c)
        /\ S(c, 1) = {}
        /\ S(c, 0) # {}
        /\ Hits(c, 0) = S(c, 0)

(* C5: with S1 and S0 non-empty and equal rates p1 = p0 (0 included) the   *)
(* call returns 1.                                                         *)
C5_PerfectFairness ==
    \A c \in Calls : (BothGroups(c) /\ RatesEqual(c)) => c.out.score = One

\* the log holds a call with p1 = p0 = 0
C5_Witness ==
    \E c \in Calls : BothGroups(c) /\ nHits(c, 1) = 0 /\ nHits(c, 0) = 0

(* C6: with S1 and S0 non-empty and no positive prediction in either, the  *)
(* call returns 1 and issues no warning at all.                            *)
C6_ZeroRateSilent ==
    \A c \in Calls :
        (BothGroups(c) /\ nHits(c, 1) = 0 /\ nHits(c, 0) = 0) =>
            /\ c.out.score = One
            /\ c.out.warnings = <<>>

(* C7: with S1 and S0 non-empty and both rates positive the call returns   *)
(* min(p1/p0, p0/p1), which is in (0, 1]; the example returns 1; the score *)
(* is that of the positive-labelled rows alone.                            *)
C7_CoreFormula ==
    \A c \in Calls :
        /\ (BothGroups(c) /\ nHits(c, 1) > 0 /\ nHits(c, 0) > 0) =>
              /\ c.out.score = IF Rate1Smaller(c)
                               THEN Num(nHits(c, 1) * nS(c, 0), nS(c, 1) * nHits(c, 0))
                               ELSE Num(nHits(c, 0) * nS(c, 1), nS(c, 0) * nHits(c, 1))
              /\ 0 < c.out.score.n
              /\ c.out.score.n <= c.out.score.d
        /\ (IsExample(c) /\ c.cfg.sensitive_column = 0) => c.out.score = One

\* a call with rates 1/2 and 1 and a row whose label is not positive in
\* each group
C7_Witness ==
    \E c \in Calls :
        /\ BothGroups(c)
        /\ nHits(c, 1) > 0 /\ nHits(c, 0) > 0
        /\ ~RatesEqual(c)
        /\ \E i, j \in 1..Len(c.X) :
              /\ Z(c, i) = 1 /\ c.y_true[i] # c.cfg.positive_target
              /\ Z(c, j) = 0 /\ c.y_true[j] # c.cfg.positive_target

C9_EitherRateZero ==
    \A c \in Calls :
        (BothGroups(c) /\ (nHits(c, 1) = 0 \/ nHits(c, 0) = 0)) => c.out.score = One

(* C9 amended: with S1 and S0 non-empty the call returns 1 when both rates *)
(* are 0 and 0 when exactly one of them is 0.                              *)
C9_ZeroRates ==
    \A c \in Calls :
        BothGroups(c) =>
            /\ (nHits(c, 1) = 0 /\ nHits(c, 0) = 0) => c.out.score = One
            /\ (nHits(c, 1) = 0 /\ nHits(c, 0) > 0) => c.out.score = Zero
            /\ (nHits(c, 1) > 0 /\ nHits(c, 0) = 0) => c.out.score = Zero

\* a call where group 0 has a positive rate and group 1 rate 0
C9_Witness ==
    \E c \in Calls :
        /\ BothGroups(c)
        /\ nHits(c, 1) = 0
        /\ Hits(c, 0) = S(c, 0)

(* C10 as stated: when S1 and S0 are both empty, a warning for group 1 and *)
(* a warning for group 0 are issued before 0 is returned.                  *)
C10_BothReported ==
    \A c \in Calls :
        (Returned(c) /\ S(c, 1) = {} /\ S(c, 0) = {}) =>
            /\ c.out.score = Zero
            /\ \E i \in ImplWarnings(c) : c.out.warnings[i].what = "group 1"
            /\ \E i \in ImplWarnings(c) : c.out.warnings[i].what = "group 0"

(* C10 amended: the S1 check comes first and the first empty group found   *)
(* returns 0 with its warning alone: S1 empty gives the group 1 warning    *)
(* only, also when S0 is empty too; S0 empty with S1 non-empty gives the   *)
(* group 0 warning only.                                                   *)
C10_FirstEmptyGroupWins ==
    \A c \in Calls :
        Returned(c) =>
            /\ S(c, 1) = {} =>
                  /\ c.out.warnings = <<Warning("impl", "group 1")>>
                  /\ c.out.score = Zero
            /\ (S(c, 1) # {} /\ S(c, 0) = {}) =>
                  /\ c.out.warnings = <<Warning("impl", "group 0")>>
                  /\ c.out.score = Zero

\* a call on data with rows but no positive-labelled sample in either group
C10_Witness ==
    \E c \in Calls :
        /\ Returned(c)
        /\ Len(c.X) > 0
        /\ S(c, 1) = {}
        /\ S(c, 0) = {}

====
